---- MODULE Spec2Model ----
(***************************************************************************)
(* A model of SuperMicroFanControl (IPMI-Fan-Control): the RMCP probe loop *)
(* of the constructor, the fan-mode / zone-speed commands, the SDR record  *)
(* decoder and the SDR repository walk of get_temperatures.                *)
(*                                                                         *)
(* The BMC behind connection.raw_command is the environment: every         *)
(* response is chosen by it, and every blocking call is one step.          *)
(***************************************************************************)
EXTENDS Integers, Sequences, FiniteSets, TLC

VARIABLES
    op,             \* which operation of the object this behaviour runs
    \* ---- __init__ (super_micro_fan_controller.py) ----
    est_pc,         \* position in __init__
    retry_count0,   \* the retry_count argument as passed
    retry_timeout,  \* the retry_timeout argument
    retry_count,    \* the local retry_count, decremented by the loop
    session_opens,  \* calls of connection.session.establish()
    probeLog,       \* outcome of every rmcp_ping(), in order
    sleepLog,       \* argument of every time.sleep() of the loop, in order
    \* ---- get_fan_mode / set_fan_mode / set_fan_speed ----
    fan_pc,         \* position in set_fan_speed
    fan_speeds,     \* the argument: (zone, speed) pairs in insertion order
    fan_mode,       \* the local fan_mode (a FanMode member, or NoValue)
    fan_i,          \* pairs of fan_speeds.items() already iterated
    response,       \* the local response (Unbound until a zone write returns)
    fan_result,     \* what set_fan_speed returned or raised
    fanLog,         \* every raw_command of the call, in order, with its outcome
    settleLog,      \* every time.sleep() of set_fan_speed, with the log length then
    bmc_mode_byte,  \* the BMC's fan mode register
    bmc_mode_byte0, \* the register when the call started
    bmc_zone,       \* the BMC's duty cycle per zone byte
    \* ---- get_sdr_record as a function of one response ----
    dec_pc,         \* position of the decoder run
    dec_response,   \* the response handed to the decoder
    dec_result,     \* what the decoder returned or raised
    \* ---- get_temperatures ----
    walk_pc,        \* position in get_temperatures
    sdr_count,      \* the local sdr_count
    reservation_id, \* the local reservation_id (the whole response)
    address,        \* the local address: a Python list at first, then bytes
    sensor_data,    \* the local sensor_data dict
    walk_i,         \* iterations of the for loop started
    record,         \* the local record of the current iteration
    walk_result,    \* what get_temperatures returned or raised
    walkLog,        \* every raw_command of the call, in order, with its response
    last_reservation \* the reserve response of the call before this one, if any

estVars == <<est_pc, retry_count0, retry_timeout, retry_count, session_opens,
             probeLog, sleepLog>>
fanVars == <<fan_pc, fan_speeds, fan_mode, fan_i, response, fan_result, fanLog,
             settleLog, bmc_mode_byte, bmc_mode_byte0, bmc_zone>>
decVars == <<dec_pc, dec_response, dec_result>>
walkVars == <<walk_pc, sdr_count, reservation_id, address, sensor_data, walk_i,
              record, walk_result, walkLog, last_reservation>>
vars == <<op, estVars, fanVars, decVars, walkVars>>

\* what the steps of one operation leave alone
EstFrame == UNCHANGED <<op, fanVars, decVars, walkVars>>
FanFrame == UNCHANGED <<op, estVars, decVars, walkVars>>
DecFrame == UNCHANGED <<op, estVars, fanVars, walkVars>>
WalkFrame == UNCHANGED <<op, estVars, fanVars, decVars, last_reservation>>

(***************************************************************************)
(* Bounds of the model.                                                    *)
(***************************************************************************)
MaxRetryCount == 3      \* retry_count arguments are drawn from -1 .. MaxRetryCount
MaxProbes == 6          \* rmcp_ping() calls explored in one construction
MaxSdrCount == 3        \* sdr_count values reported by the BMC: 0 .. MaxSdrCount
NumAddresses == 3       \* record addresses the BMC uses: 0 .. NumAddresses - 1

(***************************************************************************)
(* Python values.                                                          *)
(***************************************************************************)
NoMode == "None"       \* fan_mode before get_fan_mode has returned
None == <<>>           \* an absent optional byte; a present one is <<b>>
Unbound == <<-1>>      \* a local name no statement has bound yet

\* s[a:b] of Python (0-based, b exclusive, clipped to the length) on a sequence
Slice(s, a, b) ==
    LET hi == IF b < Len(s) THEN b ELSE Len(s)
    IN  IF a >= hi THEN <<>> ELSE [i \in 1..(hi - a) |-> s[a + i]]

\* s[a:] of Python
SliceFrom(s, a) == Slice(s, a, Len(s))

\* s[i] of Python, for 0 <= i < len(s)
At(s, i) == s[i + 1]


(***************************************************************************)
(* __init__: session.establish(), then the rmcp_ping() loop.               *)
(***************************************************************************)
RetryCounts == (-1)..MaxRetryCount
RetryTimeouts == {1, 5}

\* the test of line 62 written as "no retries left or fewer"
RetriesExhausted_Negative(rc) == rc < 0

\* the test of line 62 written as "nothing positive left"
RetriesExhausted_NotPositive(rc) == rc <= 0

\* line 62: if retry_count == 0
RetriesExhausted(rc) == rc = 0

\* line 65 written as retry_count -= 2
Decrement_Two(rc) == rc - 2

\* line 65: retry_count -= 1
Decrement(rc) == rc - 1

\* where control goes when rmcp_ping() returns without raising: the try
\* statement has no else/break, so the while True loop pings again
AfterPingOk == "ping"

InitEstablish ==
    /\ est_pc = "open"
    /\ retry_count0 \in RetryCounts
    /\ retry_timeout \in RetryTimeouts
    /\ retry_count = retry_count0
    /\ session_opens = 0
    /\ probeLog = <<>>
    /\ sleepLog = <<>>

\* line 53
SessionEstablish ==
    /\ est_pc = "open"
    /\ session_opens' = session_opens + 1
    /\ est_pc' = "ping"
    /\ UNCHANGED <<retry_count0, retry_timeout, retry_count, probeLog, sleepLog>>
    /\ EstFrame

\* lines 56-57: the probe answers
PingOk ==
    /\ est_pc = "ping"
    /\ Len(probeLog) < MaxProbes
    /\ probeLog' = Append(probeLog, "ok")
    /\ est_pc' = AfterPingOk
    /\ UNCHANGED <<retry_count0, retry_timeout, retry_count, session_opens, sleepLog>>
    /\ EstFrame

\* lines 56-65: the probe raises IpmiTimeoutError
PingTimeout ==
    /\ est_pc = "ping"
    /\ Len(probeLog) < MaxProbes
    /\ probeLog' = Append(probeLog, "timeout")
    /\ IF RetriesExhausted(retry_count)
          THEN /\ est_pc' = "RetryError"
               /\ UNCHANGED retry_count
          ELSE /\ retry_count' = Decrement(retry_count)
               /\ est_pc' = "sleep"
    /\ UNCHANGED <<retry_count0, retry_timeout, session_opens, sleepLog>>
    /\ EstFrame

\* lines 66-67
RetrySleep ==
    /\ est_pc = "sleep"
    /\ sleepLog' = Append(sleepLog, retry_timeout)
    /\ est_pc' = "ping"
    /\ UNCHANGED <<retry_count0, retry_timeout, retry_count, session_opens, probeLog>>
    /\ EstFrame

EstablishNext ==
    \/ SessionEstablish
    \/ PingOk
    \/ PingTimeout
    \/ RetrySleep

(***************************************************************************)
(* The command channel: send_command -> connection.raw_command.  A call    *)
(* either raises (the transport failed) or returns the BMC's bytes, the    *)
(* completion code first.                                                  *)
(***************************************************************************)
NETFN_SUPER_OEM == 48          \* 0x30
BMC_STATUS == 112              \* 0x70
NETFN_STORAGE == 10            \* pyipmi.msgs.constants, 0x0a
NETFN_SENSOR_EVENT == 4        \* pyipmi.msgs.constants, 0x04
CMDID_GET_SDR_REPOSITORY_INFO == 32   \* 0x20
CMDID_RESERVE_SDR_REPOSITORY == 34    \* 0x22
CMDID_GET_SDR == 35                   \* 0x23
CMDID_GET_SENSOR_READING == 45        \* 0x2d
SDR_TYPE_FULL_SENSOR_RECORD == 1      \* pyipmi.sdr
SDR_TYPE_COMPACT_SENSOR_RECORD == 2   \* pyipmi.sdr
SENSOR_TYPE_TEMPERATURE == 1          \* pyipmi.sensor

\* 0x00: completed normally; 0xcc: invalid data field in request
CompletionCodes == {0, 204}

\* one raw_command: what was sent, whether it returned, and what came back
Sent(netfn, data, ok, rsp) == [netfn |-> netfn, data |-> data, ok |-> ok, rsp |-> rsp]

Running == [kind |-> "running", exc |-> "", val |-> <<>>]
Returned(v) == [kind |-> "returned", exc |-> "", val |-> v]
Raised(e) == [kind |-> "raised", exc |-> e, val |-> <<>>]

(***************************************************************************)
(* FanMode and Zones.                                                      *)
(***************************************************************************)
FanModes == {"STANDARD", "FULL_SPEED", "OPTIMAL", "PUE2_OPTIMAL", "HEAVY_IO",
             "PUE3_OPTIMAL"}

\* member.value
FanModeValue(m) ==
    CASE m = "STANDARD" -> 0
      [] m = "FULL_SPEED" -> 1
      [] m = "OPTIMAL" -> 2
      [] m = "PUE2_OPTIMAL" -> 3
      [] m = "HEAVY_IO" -> 4
      [] m = "PUE3_OPTIMAL" -> 5

\* a lookup that falls back to the first member instead of raising
FanMode_Default(b) ==
    IF \E m \in FanModes : FanModeValue(m) = b
        THEN CHOOSE m \in FanModes : FanModeValue(m) = b
        ELSE "STANDARD"

\* a lookup that takes the byte modulo the number of members
FanMode_Wrap(b) == CHOOSE m \in FanModes : FanModeValue(m) = b % 6

\* FanMode(b): the member whose value is b; Enum raises ValueError for any
\* other b
FanMode(b) ==
    IF \E m \in FanModes : FanModeValue(m) = b
        THEN CHOOSE m \in FanModes : FanModeValue(m) = b
        ELSE "ValueError"

Zones == {"CPU", "PERIPHERAL"}

\* zone.value
ZoneValue(z) == IF z = "CPU" THEN 0 ELSE 1

Bytes == 0..255
Speeds == {30, 100}

\* dicts over Zones, as their items() in insertion order
ZoneSpeedMaps ==
    {<<>>}
    \cup {<<[zone |-> z, speed |-> v]>> : z \in Zones, v \in Speeds}
    \cup {<<[zone |-> z[1], speed |-> v[1]], [zone |-> z[2], speed |-> v[2]]>> :
            z \in {<<"CPU", "PERIPHERAL">>, <<"PERIPHERAL", "CPU">>},
            v \in Speeds \X Speeds}

(***************************************************************************)
(* get_fan_mode, set_fan_mode, set_fan_speed.                              *)
(***************************************************************************)
GetFanModeCmd == <<69, 0>>                      \* [0x45, 0x00]
SetFanModeCmd(m) == <<69, 1, FanModeValue(m)>>  \* [0x45, 0x01, mode.value]
\* [self.BMC_STATUS, 0x66, 0x01, zone.value, fan_speed]
ZoneSpeedCmd(z, v) == <<BMC_STATUS, 102, 1, ZoneValue(z), v>>

\* the test of line 124 with == for !=
NeedsManual_Inverted(m) == m = "FULL_SPEED"

\* line 124: if fan_mode != self.FanMode.FULL_SPEED
NeedsManual(m) == m # "FULL_SPEED"

\* line 126 asking for FanMode.STANDARD
ManualMode_Standard == "STANDARD"

\* line 126: the mode set_fan_speed asks for
ManualMode == "FULL_SPEED"

\* the loop of line 130 over reversed(fan_speeds.items())
NextPair_Reversed(fs, i) == fs[Len(fs) - i]

\* a loop that takes the first pair of fan_speeds.items() every time
NextPair_First(fs, i) == fs[1]

\* line 130: the pair the for loop takes after i pairs
NextPair(fs, i) == fs[i + 1]

IsModeWrite(e) == e.netfn = NETFN_SUPER_OEM /\ Len(e.data) = 3 /\ e.data[1] = 69 /\ e.data[2] = 1
IsModeQuery(e) == e.netfn = NETFN_SUPER_OEM /\ e.data = GetFanModeCmd
IsZoneWrite(e) == e.netfn = NETFN_SUPER_OEM /\ Len(e.data) = 5 /\ e.data[1] = BMC_STATUS

InitFan ==
    /\ fan_pc = "query"
    /\ fan_speeds \in ZoneSpeedMaps
    /\ fan_mode = NoMode
    /\ fan_i = 0
    /\ response = Unbound
    /\ fan_result = Running
    /\ fanLog = <<>>
    /\ settleLog = <<>>
    /\ bmc_mode_byte \in Bytes
    /\ bmc_mode_byte0 = bmc_mode_byte
    /\ bmc_zone = [z \in {0, 1} |-> 50]

\* lines 123, 110-112: the query returns [completion, modeByte]
FanQueryAnswered ==
    /\ fan_pc = "query"
    /\ LET rsp == <<0, bmc_mode_byte>>
           m == FanMode(At(rsp, 1))
       IN  /\ fanLog' = Append(fanLog, Sent(NETFN_SUPER_OEM, GetFanModeCmd, TRUE, rsp))
           /\ IF m = "ValueError"
                 THEN /\ fan_pc' = "done"
                      /\ fan_result' = Raised("ValueError")
                      /\ UNCHANGED fan_mode
                 ELSE /\ fan_mode' = m
                      /\ fan_pc' = IF NeedsManual(m) THEN "set_mode" ELSE "settle"
                      /\ UNCHANGED fan_result
    /\ UNCHANGED <<fan_speeds, fan_i, response, settleLog, bmc_mode_byte,
                   bmc_mode_byte0, bmc_zone>>
    /\ FanFrame

\* lines 123, 110-112: the query returns a completion code alone, so
\* response[1] raises IndexError
FanQueryShort ==
    /\ fan_pc = "query"
    /\ fanLog' = Append(fanLog, Sent(NETFN_SUPER_OEM, GetFanModeCmd, TRUE, <<204>>))
    /\ fan_pc' = "done"
    /\ fan_result' = Raised("IndexError")
    /\ UNCHANGED <<fan_speeds, fan_mode, fan_i, response, settleLog, bmc_mode_byte,
                   bmc_mode_byte0, bmc_zone>>
    /\ FanFrame

\* lines 123, 110: raw_command raises
FanQueryFails ==
    /\ fan_pc = "query"
    /\ fanLog' = Append(fanLog, Sent(NETFN_SUPER_OEM, GetFanModeCmd, FALSE, <<>>))
    /\ fan_pc' = "done"
    /\ fan_result' = Raised("ChannelError")
    /\ UNCHANGED <<fan_speeds, fan_mode, fan_i, response, settleLog, bmc_mode_byte,
                   bmc_mode_byte0, bmc_zone>>
    /\ FanFrame

\* lines 126, 114-119: set_fan_mode(FULL_SPEED); the BMC answers cc
FanSetMode ==
    /\ fan_pc = "set_mode"
    /\ ManualMode \in FanModes
    /\ \E cc \in CompletionCodes :
         /\ fanLog' = Append(fanLog,
                Sent(NETFN_SUPER_OEM, SetFanModeCmd(ManualMode), TRUE, <<cc>>))
         /\ bmc_mode_byte' = IF cc = 0 THEN FanModeValue(ManualMode)
                                           ELSE bmc_mode_byte
    /\ fan_pc' = "settle"
    /\ UNCHANGED <<fan_speeds, fan_mode, fan_i, response, fan_result, settleLog,
                   bmc_mode_byte0, bmc_zone>>
    /\ FanFrame

\* lines 126, 119: raw_command raises
FanSetModeFails ==
    /\ fan_pc = "set_mode"
    /\ ManualMode \in FanModes
    /\ fanLog' = Append(fanLog,
           Sent(NETFN_SUPER_OEM, SetFanModeCmd(ManualMode), FALSE, <<>>))
    /\ fan_pc' = "done"
    /\ fan_result' = Raised("ChannelError")
    /\ UNCHANGED <<fan_speeds, fan_mode, fan_i, response, settleLog, bmc_mode_byte,
                   bmc_mode_byte0, bmc_zone>>
    /\ FanFrame

\* line 128: time.sleep(1)
FanSettle ==
    /\ fan_pc = "settle"
    /\ settleLog' = Append(settleLog, [seconds |-> 1, after |-> Len(fanLog)])
    /\ fan_pc' = "zones"
    /\ UNCHANGED <<fan_speeds, fan_mode, fan_i, response, fan_result, fanLog,
                   bmc_mode_byte, bmc_mode_byte0, bmc_zone>>
    /\ FanFrame

\* lines 130-132: one iteration of the loop; the BMC answers cc
FanZoneWrite ==
    /\ fan_pc = "zones"
    /\ fan_i < Len(fan_speeds)
    /\ LET pair == NextPair(fan_speeds, fan_i)
           cmd == ZoneSpeedCmd(pair.zone, pair.speed)
       IN  \E cc \in CompletionCodes :
             /\ fanLog' = Append(fanLog, Sent(NETFN_SUPER_OEM, cmd, TRUE, <<cc>>))
             /\ response' = <<cc>>
             /\ bmc_zone' = IF cc = 0
                              THEN [bmc_zone EXCEPT ![At(cmd, 3)] = At(cmd, 4)]
                              ELSE bmc_zone
    /\ fan_i' = fan_i + 1
    /\ UNCHANGED <<fan_pc, fan_speeds, fan_mode, fan_result, settleLog,
                   bmc_mode_byte, bmc_mode_byte0>>
    /\ FanFrame

\* lines 130-132: raw_command raises in the loop
FanZoneWriteFails ==
    /\ fan_pc = "zones"
    /\ fan_i < Len(fan_speeds)
    /\ LET pair == NextPair(fan_speeds, fan_i)
       IN  fanLog' = Append(fanLog,
              Sent(NETFN_SUPER_OEM, ZoneSpeedCmd(pair.zone, pair.speed), FALSE, <<>>))
    /\ fan_pc' = "done"
    /\ fan_result' = Raised("ChannelError")
    /\ UNCHANGED <<fan_speeds, fan_mode, fan_i, response, settleLog, bmc_mode_byte,
                   bmc_mode_byte0, bmc_zone>>
    /\ FanFrame

\* line 134: return response (UnboundLocalError when the loop never ran)
FanReturn ==
    /\ fan_pc = "zones"
    /\ fan_i >= Len(fan_speeds)
    /\ fan_pc' = "done"
    /\ fan_result' = IF response = Unbound
                        THEN Raised("UnboundLocalError")
                        ELSE Returned(response)
    /\ UNCHANGED <<fan_speeds, fan_mode, fan_i, response, fanLog, settleLog,
                   bmc_mode_byte, bmc_mode_byte0, bmc_zone>>
    /\ FanFrame

FanNext ==
    \/ FanQueryAnswered
    \/ FanQueryShort
    \/ FanQueryFails
    \/ FanSetMode
    \/ FanSetModeFails
    \/ FanSettle
    \/ FanZoneWrite
    \/ FanZoneWriteFails
    \/ FanReturn

(***************************************************************************)
(* get_sdr_record after the command: the decoding of one response.         *)
(***************************************************************************)
NoRecord(kind, why) ==
    [kind |-> kind, why |-> why, next_address |-> <<>>, record_id |-> <<>>,
     sdr_version |-> 0, record_type |-> 0, record_length |-> 0, data |-> <<>>]

\* the test of line 83 with < for !=
LengthMismatch_Short(data, record_length) == Len(data) < record_length

\* line 83: if len(data) != record_length
LengthMismatch(data, record_length) == Len(data) # record_length

\* line 87: if record_type not in [FULL, COMPACT]
UnsupportedType(record_type) ==
    record_type \notin {SDR_TYPE_FULL_SENSOR_RECORD, SDR_TYPE_COMPACT_SENSOR_RECORD}

\* lines 75-98.  The starred unpacking of response[3:8] needs three items at
\* least (ValueError otherwise); record_id takes all but the last three.
DecodeSdr(rsp) ==
    LET hdr == Slice(rsp, 3, 8)
        n == Len(hdr)
    IN  IF n < 3 THEN NoRecord("ValueError", "")
        ELSE
        LET next_address == Slice(rsp, 1, 3)
            record_id == Slice(hdr, 0, n - 3)
            sdr_version == hdr[n - 2]
            record_type == hdr[n - 1]
            record_length == hdr[n]
            data == SliceFrom(rsp, 8)
        IN  IF LengthMismatch(data, record_length)
                THEN NoRecord("None", "LengthMismatch")
            ELSE IF UnsupportedType(record_type)
                THEN NoRecord("None", "UnsupportedType")
            ELSE [kind |-> "record", why |-> "",
                  next_address |-> next_address, record_id |-> record_id,
                  sdr_version |-> sdr_version, record_type |-> record_type,
                  record_length |-> record_length, data |-> data]

MaxDecodeData == 3      \* data bytes of the responses the decoder is run on

DecodePattern == <<7, 8, 9, 10, 11, 12>>

\* responses with a whole header, and every proper prefix of one of them
DecodeInputs ==
    {<<0, n, 0, 1, 0, 81, t, l>> \o Slice(DecodePattern, 0, k) :
        n \in {0, 1}, t \in {1, 2, 3, 192}, l \in 0..MaxDecodeData,
        k \in 0..MaxDecodeData}
    \cup {Slice(<<0, 1, 0, 1, 0, 81, 1, 0>>, 0, k) : k \in 0..7}
    \cup {<<0, 1, 0, 81, 1, 0>>, <<0, 1, 0, 1, 81, 2, 0>>}

InitDecode ==
    /\ dec_pc = "call"
    /\ dec_response \in DecodeInputs
    /\ dec_result = NoRecord("", "")

Decode ==
    /\ dec_pc = "call"
    /\ dec_result' = DecodeSdr(dec_response)
    /\ dec_pc' = "done"
    /\ UNCHANGED dec_response
    /\ DecFrame

DecodeNext == Decode

(***************************************************************************)
(* The BMC's side of the SDR repository: what it may answer.               *)
(***************************************************************************)
ZeroAddress == <<0, 0>>
AddressValues == {<<a, 0>> : a \in 0..(NumAddresses - 1)}

Inlet == <<73, 110, 108, 101, 116>>    \* b"Inlet"
TempC == <<84, 194, 176>>              \* "T" and U+00B0 in UTF-8
BadName == <<255>>                     \* not UTF-8

\* what the BMC holds at one address: the address of the next record, the
\* record type, the sensor type, the id string, the record length it states
\* minus the length it sends, and whether the body stops after 3 bytes
SdrShapes ==
    [next : AddressValues, rtype : {1}, stype : {1}, name : {Inlet}, extra : {0}, short : {FALSE}]
    \cup [next : AddressValues, rtype : {2}, stype : {1}, name : {TempC}, extra : {0}, short : {FALSE}]
    \cup [next : AddressValues, rtype : {2}, stype : {4}, name : {Inlet}, extra : {0}, short : {FALSE}]
    \cup [next : AddressValues, rtype : {3}, stype : {1}, name : {Inlet}, extra : {0}, short : {FALSE}]
    \cup [next : {<<1, 0>>}, rtype : {1, 3}, stype : {1}, name : {Inlet}, extra : {1}, short : {FALSE}]
    \cup [next : {<<1, 0>>}, rtype : {1}, stype : {1}, name : {BadName}, extra : {0}, short : {FALSE}]
    \cup [next : {<<1, 0>>}, rtype : {1}, stype : {1}, name : {<<>>}, extra : {0}, short : {TRUE}]

\* the record body: sensor number at offset 2, sensor type at offset 7, id
\* string from offset 43
SdrBody(a, d) ==
    IF d.short THEN <<0, 0, 16 + a[1]>>
    ELSE [i \in 1..43 |-> IF i = 3 THEN 16 + a[1] ELSE IF i = 8 THEN d.stype ELSE 0]
         \o d.name

\* [completion, nextAddress(2), recordId(2), sdrVersion, recordType,
\*  recordLength, data...] for the record at address a
SdrResponse(a, d) ==
    LET body == SdrBody(a, d)
    IN  <<0>> \o d.next \o a \o <<81, d.rtype, Len(body) + d.extra>> \o body

ReservationIds == {<<1, 0>>, <<2, 0>>}
Readings == {40}

IsGetSdr(e) == e.netfn = NETFN_STORAGE /\ e.data[1] = CMDID_GET_SDR
IsReserve(e) == e.netfn = NETFN_STORAGE /\ e.data[1] = CMDID_RESERVE_SDR_REPOSITORY
IsRepoInfo(e) == e.netfn = NETFN_STORAGE /\ e.data[1] = CMDID_GET_SDR_REPOSITORY_INFO
IsSensorRead(e) == e.netfn = NETFN_SENSOR_EVENT /\ e.data[1] = CMDID_GET_SENSOR_READING

\* the address bytes of a get-SDR command
SdrCmdAddress(e) == Slice(e.data, 3, 5)

\* the repository does not change during a walk: an address read before
\* answers as it did
SdrAnswers(a, log) ==
    IF \E i \in 1..Len(log) : IsGetSdr(log[i]) /\ log[i].ok /\ SdrCmdAddress(log[i]) = a
        THEN {log[i].rsp : i \in {j \in 1..Len(log) :
                  IsGetSdr(log[j]) /\ log[j].ok /\ SdrCmdAddress(log[j]) = a}}
        ELSE {SdrResponse(a, d) : d \in SdrShapes}

(***************************************************************************)
(* bytes.decode("utf-8"): the code points of a byte string, or             *)
(* UnicodeDecodeError.  One- and two-byte forms are decoded; the id        *)
(* strings above hold no leader of a longer form.                          *)
(***************************************************************************)
RECURSIVE Utf8Decode(_)
Utf8Decode(b) ==
    IF b = <<>> THEN [ok |-> TRUE, str |-> <<>>]
    ELSE
    LET c == Head(b)
    IN  IF c < 128 THEN
            LET r == Utf8Decode(Tail(b))
            IN  [ok |-> r.ok, str |-> <<c>> \o r.str]
        ELSE IF c \in 194..223 /\ Len(b) >= 2 /\ b[2] \in 128..191 THEN
            LET r == Utf8Decode(Tail(Tail(b)))
            IN  [ok |-> r.ok, str |-> <<(c - 192) * 64 + (b[2] - 128)>> \o r.str]
        ELSE [ok |-> FALSE, str |-> <<>>]

(***************************************************************************)
(* get_sensor_reading and get_temperatures.                                *)
(***************************************************************************)
PyList(v) == [kind |-> "list", val |-> v]
PyBytes(v) == [kind |-> "bytes", val |-> v]

\* line 165: record["next_address"] == address.  A slice of the response
\* (bytes) never equals a list, whatever they hold.
PyEq(x, y) == x.kind = y.kind /\ x.val = y.val

\* line 144: address = [0x00, 0x00]
StartAddress == PyList(ZeroAddress)

\* the loop of line 148 over range(sdr_count + 2)
LoopHead_TwoMore(i, n) == IF i < n + 2 THEN "get_sdr" ELSE "return"

\* line 148: for _ in range(sdr_count), with i iterations started
LoopHead(i, n) == IF i < n THEN "get_sdr" ELSE "return"

\* line 73 with the reservation of the call before, when there was one
GetSdrCmd_Previous(rid, addr) ==
    <<CMDID_GET_SDR>>
    \o SliceFrom(IF last_reservation # <<>> THEN last_reservation ELSE rid, 1)
    \o addr.val \o <<0, 255>>

\* line 73: [CMDID_GET_SDR, *reservation_id, *address, offset, bytes_to_read]
\* with the reservation_id[1:] of line 149
GetSdrCmd(rid, addr) == <<CMDID_GET_SDR>> \o SliceFrom(rid, 1) \o addr.val \o <<0, 255>>

\* line 101
SensorReadingCmd(sensor_number) == <<CMDID_GET_SENSOR_READING, sensor_number>>

\* line 107 returning response[0], the completion code
SensorReading_Completion(rsp) == IF Len(rsp) = 1 THEN None ELSE <<At(rsp, 0)>>

\* lines 103-107: None for a completion code alone, else response[1]
SensorReading(rsp) == IF Len(rsp) = 1 THEN None ELSE <<At(rsp, 1)>>

\* line 158 without the test of the sensor type
IsTemperature_Any(sensor_type) == TRUE

\* line 158: if sensor_type == SENSOR_TYPE_TEMPERATURE
IsTemperature(sensor_type) == sensor_type = SENSOR_TYPE_TEMPERATURE

\* line 155, line 156, line 159
SensorNumber(data) == At(data, 2)
SensorType(data) == At(data, 7)
IdBytes(data) == SliceFrom(data, 43)

\* line 163: sensor_data[id_string] = sensor_reading
DictSet(d, k, v) == [x \in DOMAIN d \cup {k} |-> IF x = k THEN v ELSE d[x]]

\* lines 151-152 left out: the loop goes on with whatever came back
EndsWalk_Never(rec) == FALSE

\* lines 151-152: a record of None ends the loop
EndsWalk(rec) == rec.kind = "None"

\* lines 165-168 with a next address of 0x0000 taken as the end as well
AfterRecord_ZeroSentinel(rec, addr, i, n) ==
    IF PyEq(PyBytes(rec.next_address), addr) \/ rec.next_address = ZeroAddress
        THEN [pc |-> "return", address |-> addr]
        ELSE [pc |-> LoopHead(i, n), address |-> PyBytes(rec.next_address)]

\* lines 165-168: where the loop goes after a record, and with what address
AfterRecord(rec, addr, i, n) ==
    IF PyEq(PyBytes(rec.next_address), addr)
        THEN [pc |-> "return", address |-> addr]
        ELSE [pc |-> LoopHead(i, n), address |-> PyBytes(rec.next_address)]

EmptyDict == [x \in {} |-> None]

InitWalk ==
    /\ walk_pc = "info"
    /\ sdr_count = 0
    /\ reservation_id = <<>>
    /\ address = StartAddress
    /\ sensor_data = EmptyDict
    /\ walk_i = 0
    /\ record = NoRecord("", "")
    /\ walk_result = Running
    /\ walkLog = <<>>
    /\ last_reservation = <<>>

\* lines 137-139
WalkInfo ==
    /\ walk_pc = "info"
    /\ \E n \in 0..MaxSdrCount :
         LET rsp == <<0, n, 0>>
         IN  /\ walkLog' = Append(walkLog,
                    Sent(NETFN_STORAGE, <<CMDID_GET_SDR_REPOSITORY_INFO>>, TRUE, rsp))
             /\ sdr_count' = At(rsp, 1)
    /\ walk_pc' = "reserve"
    /\ UNCHANGED <<reservation_id, address, sensor_data, walk_i, record, walk_result>>
    /\ WalkFrame

\* lines 141-148
WalkReserve ==
    /\ walk_pc = "reserve"
    /\ \E r \in ReservationIds :
         LET rsp == <<0>> \o r
         IN  /\ walkLog' = Append(walkLog,
                    Sent(NETFN_STORAGE, <<CMDID_RESERVE_SDR_REPOSITORY>>, TRUE, rsp))
             /\ reservation_id' = rsp
    /\ address' = StartAddress
    /\ sensor_data' = EmptyDict
    /\ walk_pc' = LoopHead(walk_i, sdr_count)
    /\ UNCHANGED <<sdr_count, walk_i, record, walk_result>>
    /\ WalkFrame

\* lines 149-158 and, for a record that is no temperature sensor, 165-168
WalkGetRecord ==
    /\ walk_pc = "get_sdr"
    /\ \E rsp \in SdrAnswers(address.val, walkLog) :
         LET rec == DecodeSdr(rsp)
             i == walk_i + 1
         IN  /\ walkLog' = Append(walkLog,
                    Sent(NETFN_STORAGE, GetSdrCmd(reservation_id, address), TRUE, rsp))
             /\ walk_i' = i
             /\ record' = rec
             /\ IF rec.kind = "ValueError" THEN
                    /\ walk_pc' = "done"
                    /\ walk_result' = Raised("ValueError")
                    /\ UNCHANGED address
                ELSE IF EndsWalk(rec) THEN
                    /\ walk_pc' = "return"
                    /\ UNCHANGED <<address, walk_result>>
                ELSE IF Len(rec.data) <= 7 THEN
                    /\ walk_pc' = "done"
                    /\ walk_result' = Raised("IndexError")
                    /\ UNCHANGED address
                ELSE IF IsTemperature(SensorType(rec.data)) THEN
                    IF Utf8Decode(IdBytes(rec.data)).ok
                        THEN /\ walk_pc' = "read_sensor"
                             /\ UNCHANGED <<address, walk_result>>
                        ELSE /\ walk_pc' = "done"
                             /\ walk_result' = Raised("UnicodeDecodeError")
                             /\ UNCHANGED address
                ELSE
                    LET to == AfterRecord(rec, address, i, sdr_count)
                    IN  /\ walk_pc' = to.pc
                        /\ address' = to.address
                        /\ UNCHANGED walk_result
    /\ UNCHANGED <<sdr_count, reservation_id, sensor_data>>
    /\ WalkFrame

\* lines 159-168 for a temperature sensor: the BMC answers the reading
\* query with a value or with a completion code alone
WalkReadSensor ==
    /\ walk_pc = "read_sensor"
    /\ LET id_string == Utf8Decode(IdBytes(record.data)).str
           sensor_number == SensorNumber(record.data)
           to == AfterRecord(record, address, walk_i, sdr_count)
       IN  /\ \E rsp \in {<<0, v>> : v \in Readings} \cup {<<203>>} :
                /\ walkLog' = Append(walkLog,
                       Sent(NETFN_SENSOR_EVENT, SensorReadingCmd(sensor_number), TRUE, rsp))
                /\ sensor_data' = DictSet(sensor_data, id_string, SensorReading(rsp))
           /\ walk_pc' = to.pc
           /\ address' = to.address
    /\ UNCHANGED <<sdr_count, reservation_id, walk_i, record, walk_result>>
    /\ WalkFrame

\* the command the walk is about to send
PendingCmd ==
    CASE walk_pc = "info" -> Sent(NETFN_STORAGE, <<CMDID_GET_SDR_REPOSITORY_INFO>>, FALSE, <<>>)
      [] walk_pc = "reserve" -> Sent(NETFN_STORAGE, <<CMDID_RESERVE_SDR_REPOSITORY>>, FALSE, <<>>)
      [] walk_pc = "get_sdr" -> Sent(NETFN_STORAGE, GetSdrCmd(reservation_id, address), FALSE, <<>>)
      [] walk_pc = "read_sensor" ->
            Sent(NETFN_SENSOR_EVENT, SensorReadingCmd(SensorNumber(record.data)), FALSE, <<>>)

\* any raw_command of the walk raises: nothing catches it
WalkChannelFails ==
    /\ walk_pc \in {"info", "reserve", "get_sdr", "read_sensor"}
    /\ walkLog' = Append(walkLog, PendingCmd)
    /\ walk_pc' = "done"
    /\ walk_result' = Raised("ChannelError")
    /\ UNCHANGED <<sdr_count, reservation_id, address, sensor_data, walk_i, record>>
    /\ WalkFrame

\* line 170
WalkReturn ==
    /\ walk_pc = "return"
    /\ walk_pc' = "done"
    /\ walk_result' = Returned(<<>>)
    /\ UNCHANGED <<sdr_count, reservation_id, address, sensor_data, walk_i, record, walkLog>>
    /\ WalkFrame

WalkNext ==
    \/ WalkInfo
    \/ WalkReserve
    \/ WalkGetRecord
    \/ WalkReadSensor
    \/ WalkChannelFails
    \/ WalkReturn

\* line 136 once more: the caller calls get_temperatures() of the same
\* object after a call has ended.  The locals are those of a new frame;
\* the object keeps nothing of the walk (no attribute is assigned after
\* __init__), and the command log starts over with the call.
WalkCallAgain ==
    /\ walk_pc = "done"
    /\ last_reservation' = reservation_id
    /\ walk_pc' = "info"
    /\ sdr_count' = 0
    /\ reservation_id' = <<>>
    /\ address' = StartAddress
    /\ sensor_data' = EmptyDict
    /\ walk_i' = 0
    /\ record' = NoRecord("", "")
    /\ walk_result' = Running
    /\ walkLog' = <<>>
    /\ UNCHANGED <<op, estVars, fanVars, decVars>>

WalkCallsNext ==
    \/ WalkNext
    \/ WalkCallAgain

(***************************************************************************)
(* Specifications: one per operation, and the object as a whole.           *)
(***************************************************************************)
IdleEstablish ==
    /\ est_pc = "idle" /\ retry_count0 = 0 /\ retry_timeout = 5 /\ retry_count = 0
    /\ session_opens = 0 /\ probeLog = <<>> /\ sleepLog = <<>>

IdleFan ==
    /\ fan_pc = "idle" /\ fan_speeds = <<>> /\ fan_mode = NoMode /\ fan_i = 0
    /\ response = Unbound /\ fan_result = Running /\ fanLog = <<>> /\ settleLog = <<>>
    /\ bmc_mode_byte = 0 /\ bmc_mode_byte0 = 0 /\ bmc_zone = [z \in {0, 1} |-> 50]

IdleDecode ==
    /\ dec_pc = "idle" /\ dec_response = <<>> /\ dec_result = NoRecord("", "")

IdleWalk ==
    /\ walk_pc = "idle" /\ sdr_count = 0 /\ reservation_id = <<>>
    /\ address = StartAddress /\ sensor_data = EmptyDict /\ walk_i = 0
    /\ record = NoRecord("", "") /\ walk_result = Running /\ walkLog = <<>>
    /\ last_reservation = <<>>

InitE == op = "__init__" /\ InitEstablish /\ IdleFan /\ IdleDecode /\ IdleWalk
InitF == op = "set_fan_speed" /\ IdleEstablish /\ InitFan /\ IdleDecode /\ IdleWalk
InitD == op = "get_sdr_record" /\ IdleEstablish /\ IdleFan /\ InitDecode /\ IdleWalk
InitW == op = "get_temperatures" /\ IdleEstablish /\ IdleFan /\ IdleDecode /\ InitWalk

SpecEstablish == InitE /\ [][EstablishNext]_vars
SpecFan == InitF /\ [][FanNext]_vars
SpecDecode == InitD /\ [][DecodeNext]_vars
SpecWalk == InitW /\ [][WalkNext]_vars
SpecWalkCalls == InitW /\ [][WalkCallsNext]_vars

Init == InitE \/ InitF \/ InitD \/ InitW
Next == EstablishNext \/ FanNext \/ DecodeNext \/ WalkCallsNext
Spec == Init /\ [][Next]_vars

(***************************************************************************)
(* What the properties speak of, read off the logs of commands.            *)
(***************************************************************************)
ModeWrites == {i \in 1..Len(fanLog) : IsModeWrite(fanLog[i])}
ZoneWrites == {i \in 1..Len(fanLog) : IsZoneWrite(fanLog[i])}
ZoneWriteLog == SelectSeq(fanLog, IsZoneWrite)

\* the get-SDR commands the BMC answered, and all the walk sent
GetSdrIdx == {i \in 1..Len(walkLog) : IsGetSdr(walkLog[i]) /\ walkLog[i].ok}
GetSdrSent == {i \in 1..Len(walkLog) : IsGetSdr(walkLog[i])}
SensorReadIdx == {j \in 1..Len(walkLog) : IsSensorRead(walkLog[j])}

\* a get-SDR response by its bytes (1-based): type at 7, length at 8, data
\* from 9, so data[2] at 11, data[7] at 16 and data[43:] from 52
RspLengthOk(r) == Len(r) >= 8 /\ Len(r) - 8 = r[8]
RspTypeOk(r) == Len(r) >= 8 /\ r[7] \in {1, 2}
RspAccepted(r) == RspLengthOk(r) /\ RspTypeOk(r)
RspIsTemp(r) == RspAccepted(r) /\ Len(r) >= 16 /\ r[16] = 1
RspNext(r) == <<r[2], r[3]>>
RspId(r) == Utf8Decode(SubSeq(r, 52, Len(r))).str

(***************************************************************************)
(* C1: in set_fan_speed, when the queried mode is not FULL_SPEED exactly   *)
(* one mode-write is sent, it carries byte 0x01 and it comes before every  *)
(* zone speed-write of the call; when the queried mode is FULL_SPEED no    *)
(* mode-write is sent at all.                                              *)
(***************************************************************************)
C1_ModeWriteBeforeSpeedWrites ==
    /\ fan_mode = "FULL_SPEED" => ModeWrites = {}
    /\ (fan_mode \in FanModes \ {"FULL_SPEED"} /\ fan_pc # "set_mode") =>
          /\ Cardinality(ModeWrites) = 1
          /\ \A m \in ModeWrites :
                /\ fanLog[m].data = <<69, 1, 1>>
                /\ \A z \in ZoneWrites : m < z
    /\ (fan_mode \in FanModes \ {"FULL_SPEED"} /\ fan_pc = "set_mode") =>
          ModeWrites = {} /\ ZoneWrites = {}

C1_Witness ==
    /\ fan_pc = "done"
    /\ fan_result.kind = "returned"
    /\ fan_mode = "OPTIMAL"
    /\ Cardinality(ZoneWrites) = 2
    /\ Cardinality(ModeWrites) = 1

(***************************************************************************)
(* C2: once a probe succeeds after k timeouts, __init__ is Ready: k + 1    *)
(* probes and k sleeps have been made, no probe follows the successful     *)
(* one, and RetryError is not raised.                                      *)
(***************************************************************************)
C2_EstablishSucceeds ==
    \A k \in 0..(MaxProbes - 1) :
        (/\ Len(probeLog) > k
         /\ probeLog[k + 1] = "ok"
         /\ \A j \in 1..k : probeLog[j] = "timeout"
         /\ (k <= retry_count0 \/ retry_count0 < 0))
        => /\ est_pc = "ready"
           /\ Len(probeLog) = k + 1
           /\ Len(sleepLog) = k

(***************************************************************************)
(* C3: with retry_count = 0 and a first probe that times out, __init__     *)
(* raises RetryError at once: one probe sent, no sleep, no second probe.   *)
(***************************************************************************)
C3_ZeroRetriesFailsAtOnce ==
    (retry_count0 = 0 /\ Len(probeLog) >= 1 /\ probeLog[1] = "timeout")
    => /\ est_pc = "RetryError"
       /\ Len(probeLog) = 1
       /\ sleepLog = <<>>

C3_Witness ==
    /\ retry_count0 = 0
    /\ probeLog = <<"timeout">>
    /\ est_pc = "RetryError"

(***************************************************************************)
(* C4: a record of the right length whose type is neither Full nor Compact *)
(* does not end the walk: while the count allows another retrieval, the    *)
(* walk goes on to read the record at its nextAddress.                     *)
(***************************************************************************)
C4_UnsupportedTypeSkipped ==
    walk_pc = "done" /\ walk_result.kind = "returned" =>
        \A i \in GetSdrIdx :
            LET r == walkLog[i].rsp
            IN  (/\ RspLengthOk(r)
                 /\ ~RspTypeOk(r)
                 /\ RspNext(r) # SdrCmdAddress(walkLog[i])
                 /\ Cardinality({j \in GetSdrSent : j <= i}) < sdr_count)
                => \E j \in GetSdrSent : j > i /\ SdrCmdAddress(walkLog[j]) = RspNext(r)

(***************************************************************************)
(* C5: whatever the repository holds and whatever count it reports, one    *)
(* walk sends at most sdr_count + 1 get-SDR commands, and it terminates:   *)
(* every step of the call sends one more command or is the return that     *)
(* ends it, and the commands of a call number at most 2 * sdr_count + 2,   *)
(* so no call takes more than 2 * sdr_count + 3 steps.                     *)
(***************************************************************************)
C5_WalkBoundedAndTerminates ==
    /\ [](/\ Cardinality(GetSdrSent) <= sdr_count + 1
          /\ Len(walkLog) <= 2 * sdr_count + 2)
    /\ [][\/ Len(walkLog') = Len(walkLog) + 1 /\ walk_pc \notin {"return", "done"}
          \/ walk_pc = "return" /\ walk_pc' = "done"]_vars

C5_Witness ==
    /\ walk_pc = "done"
    /\ sdr_count = MaxSdrCount
    /\ Cardinality(GetSdrSent) = sdr_count
    /\ \E i, j \in GetSdrSent : i < j /\ SdrCmdAddress(walkLog[i]) = SdrCmdAddress(walkLog[j])

(***************************************************************************)
(* C6 as stated: at every point of get_temperatures no key of sensor_data  *)
(* is the id string of a retrieved record of another sensor type than      *)
(* temperature, and a sensor-reading command is sent only for the sensor   *)
(* number of a temperature record.                                         *)
(***************************************************************************)
C6_NoKeyOfOtherSensorType ==
    /\ \A i \in GetSdrIdx :
          (RspAccepted(walkLog[i].rsp) /\ ~RspIsTemp(walkLog[i].rsp)) =>
             RspId(walkLog[i].rsp) \notin DOMAIN sensor_data
    /\ \A j \in SensorReadIdx :
          /\ j - 1 \in GetSdrIdx
          /\ RspIsTemp(walkLog[j - 1].rsp)
          /\ walkLog[j].data = <<45, walkLog[j - 1].rsp[11]>>

(***************************************************************************)
(* C6, amended: at every point of get_temperatures a sensor-reading        *)
(* command is sent only right after a temperature-type record was          *)
(* retrieved, for that record's sensor number, and every key of            *)
(* sensor_data was put there by such a reading: a record of another sensor *)
(* type causes no command and no change of the map, so its id string is a  *)
(* key only if a retrieved temperature record bears the same id string.    *)
(***************************************************************************)
C6_OnlyTemperatureSensors ==
    /\ \A j \in SensorReadIdx :
          /\ j - 1 \in GetSdrIdx
          /\ RspIsTemp(walkLog[j - 1].rsp)
          /\ walkLog[j].data = <<45, walkLog[j - 1].rsp[11]>>
    /\ DOMAIN sensor_data =
          {RspId(walkLog[j - 1].rsp) : j \in {x \in SensorReadIdx : walkLog[x].ok}}
    /\ \A i \in GetSdrIdx :
          (RspAccepted(walkLog[i].rsp) /\ ~RspIsTemp(walkLog[i].rsp)) =>
             /\ i < Len(walkLog) => ~IsSensorRead(walkLog[i + 1])
             /\ RspId(walkLog[i].rsp) \in DOMAIN sensor_data =>
                   \E t \in GetSdrIdx :
                       RspIsTemp(walkLog[t].rsp) /\ RspId(walkLog[t].rsp) = RspId(walkLog[i].rsp)

C6_Witness ==
    /\ walk_pc = "done"
    /\ walk_result.kind = "returned"
    /\ \E i \in GetSdrIdx :
          /\ RspAccepted(walkLog[i].rsp) /\ ~RspIsTemp(walkLog[i].rsp)
          /\ RspId(walkLog[i].rsp) \notin DOMAIN sensor_data
    /\ Cardinality(DOMAIN sensor_data) = 1

(***************************************************************************)
(* C7: when get_temperatures returns and every record it retrieved was     *)
(* accepted (right length, Full or Compact), the keys of the map are       *)
(* exactly the id strings of the temperature records retrieved, each       *)
(* mapped to the reading the sensor query returned for the sensor number   *)
(* of the last retrieved record bearing that id string.  With sdr_count =  *)
(* 2, a Full temperature record "Inlet" pointing to a Compact record of    *)
(* another sensor type that points to ZeroAddress, the map is exactly      *)
(* {"Inlet": reading}.                                                     *)
(***************************************************************************)
ReadingIn(e) == IF Len(e.rsp) = 1 THEN <<>> ELSE <<e.rsp[2]>>

C7_Scenario ==
    /\ walk_pc = "done"
    /\ walk_result.kind = "returned"
    /\ sdr_count = 2
    /\ Len(walkLog) = 5
    /\ IsGetSdr(walkLog[3]) /\ IsSensorRead(walkLog[4]) /\ IsGetSdr(walkLog[5])
    /\ LET a == walkLog[3].rsp
           b == walkLog[5].rsp
       IN  /\ RspAccepted(a) /\ a[7] = 1 /\ a[16] = 1
           /\ SubSeq(a, 52, Len(a)) = <<73, 110, 108, 101, 116>>
           /\ RspNext(a) = <<1, 0>>
           /\ RspAccepted(b) /\ b[7] = 2 /\ b[16] # 1
           /\ RspNext(b) = <<0, 0>>

C7_CollectedMap ==
    /\ (/\ walk_pc = "done"
        /\ walk_result.kind = "returned"
        /\ \A i \in GetSdrIdx : RspAccepted(walkLog[i].rsp))
       => LET temps == {i \in GetSdrIdx : RspIsTemp(walkLog[i].rsp)}
              last == {i \in temps : \A j \in temps :
                          RspId(walkLog[j].rsp) = RspId(walkLog[i].rsp) => j <= i}
          IN  /\ DOMAIN sensor_data = {RspId(walkLog[i].rsp) : i \in temps}
              /\ \A i \in temps :
                    /\ i < Len(walkLog)
                    /\ walkLog[i + 1].netfn = 4
                    /\ walkLog[i + 1].data = <<45, walkLog[i].rsp[11]>>
              /\ \A i \in last :
                    sensor_data[RspId(walkLog[i].rsp)] = ReadingIn(walkLog[i + 1])
    /\ C7_Scenario =>
          /\ DOMAIN sensor_data = {<<73, 110, 108, 101, 116>>}
          /\ sensor_data[<<73, 110, 108, 101, 116>>] = ReadingIn(walkLog[4])

C7_Witness == C7_Scenario /\ sensor_data[<<73, 110, 108, 101, 116>>] = <<40>>

(***************************************************************************)
(* C8: FanMode round-trips: each of the six members has a code in 0..5     *)
(* and the lookup of that code gives the member back; get_fan_mode turns   *)
(* the answered byte into the member with that code, and for any byte      *)
(* outside 0..5 it raises ValueError and yields no member.                 *)
(***************************************************************************)
C8_FanModeRoundTrip ==
    /\ \A m \in FanModes : FanModeValue(m) \in 0..5 /\ FanMode(FanModeValue(m)) = m
    /\ \A b \in 0..5 : \E m \in FanModes : FanModeValue(m) = b
    /\ (/\ Len(fanLog) >= 1
        /\ fanLog[1].ok
        /\ Len(fanLog[1].rsp) = 2)
       => LET b == fanLog[1].rsp[2]
          IN  IF b \in 0..5
                THEN fan_mode \in FanModes /\ FanModeValue(fan_mode) = b
                ELSE /\ fan_mode = NoMode
                     /\ fan_pc = "done"
                     /\ fan_result = Raised("ValueError")
                     /\ Len(fanLog) = 1

C8_Witness ==
    /\ Len(fanLog) = 1
    /\ fanLog[1].rsp = <<0, 6>>
    /\ fan_result = Raised("ValueError")

(***************************************************************************)
(* C9: get_sdr_record accepts a response exactly when the data after the   *)
(* 8th byte is as long as the record length states and the record type is  *)
(* Full or Compact; the fields of an accepted record are bytes [1:3], the  *)
(* items of [3:8] and [8:]; and a wrong length is rejected as a length     *)
(* mismatch whatever the record type, the length being tested first.       *)
(***************************************************************************)
C9_DecoderAcceptance ==
    dec_pc = "done" =>
        LET r == dec_response
            n == Len(r)
        IN  IF n < 6 THEN dec_result.kind = "ValueError"
            ELSE
            LET e == IF n < 8 THEN n ELSE 8
                data == SubSeq(r, 9, n)
            IN  /\ dec_result.kind = "record" <=> (Len(data) = r[e] /\ r[e - 1] \in {1, 2})
                /\ Len(data) # r[e] =>
                      dec_result.kind = "None" /\ dec_result.why = "LengthMismatch"
                /\ (Len(data) = r[e] /\ r[e - 1] \notin {1, 2}) =>
                      dec_result.kind = "None" /\ dec_result.why = "UnsupportedType"
                /\ dec_result.kind = "record" =>
                      /\ dec_result.next_address = SubSeq(r, 2, 3)
                      /\ dec_result.record_id = SubSeq(r, 4, e - 3)
                      /\ dec_result.sdr_version = r[e - 2]
                      /\ dec_result.record_type = r[e - 1]
                      /\ dec_result.record_length = r[e]
                      /\ dec_result.data = data

C9_Witness ==
    /\ dec_pc = "done"
    /\ Len(dec_response) = 10
    /\ dec_response[7] = 3
    /\ dec_response[8] = 3
    /\ dec_result.why = "LengthMismatch"

(***************************************************************************)
(* C10: set_fan_speed sends one zone speed-write per (zone, speed) pair,   *)
(* in the insertion order of the mapping, each with that pair's zone byte  *)
(* and speed byte, and what it returns is the response of the last zone    *)
(* speed-write sent.                                                       *)
(***************************************************************************)
C10_ZoneWritesInOrder ==
    /\ Len(ZoneWriteLog) <= Len(fan_speeds)
    /\ \A k \in 1..Len(ZoneWriteLog) :
          ZoneWriteLog[k].data =
              <<112, 102, 1, IF fan_speeds[k].zone = "CPU" THEN 0 ELSE 1, fan_speeds[k].speed>>
    /\ fan_result.kind = "returned" =>
          /\ Len(ZoneWriteLog) = Len(fan_speeds)
          /\ fan_result.val = ZoneWriteLog[Len(ZoneWriteLog)].rsp
          /\ fanLog[Len(fanLog)] = ZoneWriteLog[Len(ZoneWriteLog)]

C10_Witness ==
    /\ fan_result.kind = "returned"
    /\ fan_speeds = <<[zone |-> "PERIPHERAL", speed |-> 100], [zone |-> "CPU", speed |-> 30]>>
    /\ Len(ZoneWriteLog) = 2
    /\ ZoneWriteLog[1].rsp = <<0>>
    /\ fan_result.val = <<204>>

(***************************************************************************)
(* C11: with retry_count = n >= 0 and every rmcp_ping() timing out,        *)
(* __init__ makes exactly n + 1 probes and n sleeps of retry_timeout, one  *)
(* between each probe and the next, then raises RetryError; the counter    *)
(* goes down by one with each timed-out probe that is retried, and         *)
(* session.establish() is called once, before the first probe.             *)
(***************************************************************************)
AllTimedOut == \A i \in 1..Len(probeLog) : probeLog[i] = "timeout"

C11_AllTimeoutsExhaustRetries ==
    (retry_count0 >= 0 /\ AllTimedOut) =>
        LET p == Len(probeLog)
            n == retry_count0
        IN  /\ p <= n + 1
            /\ session_opens = IF est_pc = "open" THEN 0 ELSE 1
            /\ est_pc = "open" => p = 0
            /\ \A i \in 1..Len(sleepLog) : sleepLog[i] = retry_timeout
            /\ retry_count = IF p <= n THEN n - p ELSE 0
            /\ est_pc = "RetryError" <=> p = n + 1
            /\ Len(sleepLog) = IF est_pc \in {"sleep", "RetryError"} THEN p - 1 ELSE p

C11_Witness ==
    /\ retry_count0 = 3
    /\ retry_timeout = 5
    /\ est_pc = "RetryError"
    /\ probeLog = <<"timeout", "timeout", "timeout", "timeout">>
    /\ sleepLog = <<5, 5, 5>>
    /\ session_opens = 1

(***************************************************************************)
(* C12: with a negative retry_count, __init__ never raises RetryError,     *)
(* however many probes time out: the counter stays below 0, it goes down   *)
(* by one with every timeout, every timeout is followed by a sleep of      *)
(* retry_timeout and every sleep by the state in which the next probe is   *)
(* made.                                                                   *)
(***************************************************************************)
TimedOut == {i \in 1..Len(probeLog) : probeLog[i] = "timeout"}

C12_NegativeCountNeverExhausts ==
    /\ [](retry_count0 < 0 =>
            /\ est_pc # "RetryError"
            /\ retry_count < 0
            /\ retry_count = retry_count0 - Cardinality(TimedOut)
            /\ Len(sleepLog) = Cardinality(TimedOut) - (IF est_pc = "sleep" THEN 1 ELSE 0)
            /\ est_pc = "sleep" => probeLog[Len(probeLog)] = "timeout")
    /\ [][retry_count0 < 0 =>
            /\ (Len(probeLog') > Len(probeLog) /\ probeLog'[Len(probeLog')] = "timeout")
                  => est_pc' = "sleep"
            /\ est_pc = "sleep" =>
                  est_pc' = "ping" /\ sleepLog' = Append(sleepLog, retry_timeout)]_vars

C12_Witness ==
    /\ retry_count0 = -1
    /\ Len(probeLog) = MaxProbes
    /\ AllTimedOut
    /\ est_pc = "ping"
    /\ Len(sleepLog) = MaxProbes
    /\ retry_count = -1 - MaxProbes

(***************************************************************************)
(* C13: a retrieved record whose data length differs from the record       *)
(* length it states ends the walk at once: it is the last command of the   *)
(* call (no further get-SDR, no sensor reading), the call raises nothing   *)
(* and returns, and the map is the one gathered from the sensor readings   *)
(* made before it.                                                         *)
(***************************************************************************)
SensorReadsOk == {j \in SensorReadIdx : walkLog[j].ok}

\* the map the answered sensor readings of the log amount to: the id string
\* of the record before each reading, with the reading of the last of them
CollectedFromLog ==
    [k \in {RspId(walkLog[j - 1].rsp) : j \in SensorReadsOk} |->
        LET js == {j \in SensorReadsOk : RspId(walkLog[j - 1].rsp) = k}
            last == CHOOSE j \in js : \A x \in js : x <= j
        IN  ReadingIn(walkLog[last])]

C13_LengthMismatchStopsWalk ==
    \A i \in GetSdrIdx :
        (Len(walkLog[i].rsp) >= 8 /\ ~RspLengthOk(walkLog[i].rsp)) =>
            /\ i = Len(walkLog)
            /\ walk_pc \in {"return", "done"}
            /\ walk_result.kind # "raised"
            /\ walk_pc = "done" => walk_result.kind = "returned"
            /\ sensor_data = CollectedFromLog

C13_Witness ==
    /\ walk_pc = "done"
    /\ walk_result.kind = "returned"
    /\ sdr_count = 3
    /\ Len(walkLog) = 5
    /\ IsGetSdr(walkLog[3]) /\ RspIsTemp(walkLog[3].rsp)
    /\ IsSensorRead(walkLog[4]) /\ walkLog[4].rsp = <<0, 40>>
    /\ IsGetSdr(walkLog[5]) /\ ~RspLengthOk(walkLog[5].rsp)
    /\ walkLog[5].rsp[7] = 1
    /\ DOMAIN sensor_data = {<<73, 110, 108, 101, 116>>}

(***************************************************************************)
(* C14: when the first record retrieved, at ZeroAddress, names ZeroAddress *)
(* as its next address, then whatever its record type and sensor type the  *)
(* walk sends no sensor-reading command, sends that one get-SDR command    *)
(* and no other, and returns an empty map.                                 *)
(***************************************************************************)
FirstGetSdr == CHOOSE i \in GetSdrIdx : \A j \in GetSdrIdx : i <= j

C14_FirstRecordSelfLinkYieldsNothing ==
    (/\ GetSdrIdx # {}
     /\ sdr_count >= 1
     /\ SdrCmdAddress(walkLog[FirstGetSdr]) = ZeroAddress
     /\ Len(walkLog[FirstGetSdr].rsp) >= 8
     /\ RspNext(walkLog[FirstGetSdr].rsp) = ZeroAddress)
    => /\ SensorReadIdx = {}
       /\ Cardinality(GetSdrSent) = 1
       /\ walk_pc \in {"return", "done"}
       /\ walk_pc = "done" => walk_result.kind = "returned" /\ sensor_data = EmptyDict

(***************************************************************************)
(* C15: at every record of the walk, the first included: when an accepted  *)
(* record names as next address the address it was read at, no get-SDR     *)
(* command follows it; otherwise the get-SDR command that follows it, if   *)
(* there is one, is sent to the next address the record names.             *)
(***************************************************************************)
C15_StopsWhenNextIsCurrent ==
    \A i \in GetSdrIdx :
        RspAccepted(walkLog[i].rsp) =>
            LET later == {j \in GetSdrSent : j > i}
            IN  IF RspNext(walkLog[i].rsp) = SdrCmdAddress(walkLog[i])
                    THEN later = {}
                    ELSE \A j \in later :
                            (\A x \in later : j <= x) =>
                                SdrCmdAddress(walkLog[j]) = RspNext(walkLog[i].rsp)

(***************************************************************************)
(* C16: in every call of get_temperatures the first command is the         *)
(* repository-info query, the second the one reserve command of the call,  *)
(* and the get-SDR commands come after both; every get-SDR command carries *)
(* as its reservation bytes the two bytes the reserve command of the same  *)
(* call returned; and a call made after another one sends its own reserve  *)
(* command and uses what that returned, not the reservation of the call    *)
(* before.                                                                 *)
(***************************************************************************)
C16_ReservationPerWalk ==
    /\ \A i \in 1..Len(walkLog) :
          /\ IsRepoInfo(walkLog[i]) <=> i = 1
          /\ IsReserve(walkLog[i]) <=> i = 2
    /\ \A i \in GetSdrSent :
          /\ i > 2
          /\ walkLog[1].ok /\ walkLog[2].ok
          /\ Len(walkLog[2].rsp) = 3
          /\ SubSeq(walkLog[i].data, 2, 3) = SubSeq(walkLog[2].rsp, 2, 3)
          /\ Len(walkLog[i].data) = 7
    /\ (walk_pc \notin {"info", "reserve"} /\ Len(walkLog) >= 2 /\ walkLog[2].ok) =>
          reservation_id = walkLog[2].rsp

C16_Witness ==
    /\ last_reservation = <<0, 2, 0>>
    /\ walk_pc = "done"
    /\ walk_result.kind = "returned"
    /\ Len(walkLog) >= 4
    /\ walkLog[2].rsp = <<0, 1, 0>>
    /\ IsGetSdr(walkLog[3]) /\ SubSeq(walkLog[3].data, 2, 3) = <<1, 0>>
    /\ IsGetSdr(walkLog[Len(walkLog)]) /\ SubSeq(walkLog[Len(walkLog)].data, 2, 3) = <<1, 0>>

C18_ZoneWriteFailurePropagates ==
    \A k \in 1..Len(ZoneWriteLog) :
        ~ZoneWriteLog[k].ok =>
            /\ k = Len(ZoneWriteLog)
            /\ fanLog[Len(fanLog)] = ZoneWriteLog[k]
            /\ fan_pc = "done"
            /\ fan_result = Raised("ChannelError")
            /\ Len(fanLog) = 1 + Cardinality(ModeWrites) + k
            /\ Cardinality(ModeWrites) = IF fan_mode = "FULL_SPEED" THEN 0 ELSE 1
            /\ \A m \in ModeWrites : fanLog[m].ok /\ fanLog[m].data = <<69, 1, 1>>
            /\ \A j \in 1..k :
                  ZoneWriteLog[j].data =
                      <<112, 102, 1, IF fan_speeds[j].zone = "CPU" THEN 0 ELSE 1,
                        fan_speeds[j].speed>>
            /\ \A j \in 1..(k - 1) :
                  /\ ZoneWriteLog[j].ok
                  /\ ZoneWriteLog[j].rsp = <<0>> =>
                        bmc_zone[ZoneWriteLog[j].data[4]] = ZoneWriteLog[j].data[5]

C18_Witness ==
    /\ fan_pc = "done"
    /\ fan_mode = "STANDARD"
    /\ fan_speeds = <<[zone |-> "CPU", speed |-> 30], [zone |-> "PERIPHERAL", speed |-> 100]>>
    /\ Len(fanLog) = 4
    /\ fanLog[2].rsp = <<0>>
    /\ fanLog[3].ok /\ fanLog[3].rsp = <<0>>
    /\ ~fanLog[4].ok /\ IsZoneWrite(fanLog[4])
    /\ bmc_zone[0] = 30
    /\ bmc_mode_byte = 1
    /\ fan_result = Raised("ChannelError")

(***************************************************************************)
(* C19: set_fan_speed called with an empty mapping still queries the mode  *)
(* and, when the mode answered is not FULL_SPEED, writes FULL_SPEED; it    *)
(* sends no zone speed-write and never returns normally; when the BMC      *)
(* answered and accepted what was sent, the call ends in UnboundLocalError *)
(* (response was never bound) and the BMC's mode register holds            *)
(* FULL_SPEED.                                                             *)
(***************************************************************************)
AllAccepted == \A i \in 1..Len(fanLog) : fanLog[i].ok /\ fanLog[i].rsp[1] = 0

C19_EmptyMappingEndsInError ==
    fan_speeds = <<>> =>
        /\ ZoneWrites = {}
        /\ fan_result.kind # "returned"
        /\ fan_pc # "query" => Len(fanLog) >= 1 /\ IsModeQuery(fanLog[1])
        /\ fan_pc \in {"settle", "zones"} \/ (fan_pc = "done" /\ fan_mode # NoMode) =>
              IF fan_mode = "FULL_SPEED"
                  THEN Len(fanLog) = 1
                  ELSE Len(fanLog) = 2 /\ fanLog[2].data = <<69, 1, 1>>
        /\ fan_pc = "done" => fan_result.kind = "raised"
        /\ (fan_pc = "done" /\ AllAccepted /\ fan_mode # NoMode) =>
              /\ fan_result = Raised("UnboundLocalError")
              /\ bmc_mode_byte = 1
              /\ Len(settleLog) = 1

C19_Witness ==
    /\ fan_speeds = <<>>
    /\ fan_pc = "done"
    /\ fan_mode = "OPTIMAL"
    /\ bmc_mode_byte0 = 2
    /\ bmc_mode_byte = 1
    /\ Len(fanLog) = 2
    /\ fan_result = Raised("UnboundLocalError")

(***************************************************************************)
(* C20: when the mode query that opens set_fan_speed fails, by a channel   *)
(* failure or by a mode byte outside 0x00 - 0x05, the call raises that     *)
(* error with the query as its only command: no mode-write, no zone        *)
(* speed-write, and the BMC's mode register and zone duty cycles are as    *)
(* they were when the call began.                                          *)
(***************************************************************************)
C20_FailedQueryWritesNothing ==
    (/\ Len(fanLog) >= 1
     /\ \/ ~fanLog[1].ok
        \/ Len(fanLog[1].rsp) = 2 /\ fanLog[1].rsp[2] \notin 0..5)
    => /\ Len(fanLog) = 1
       /\ IsModeQuery(fanLog[1])
       /\ ModeWrites = {} /\ ZoneWrites = {}
       /\ fan_pc = "done"
       /\ fan_result = IF fanLog[1].ok THEN Raised("ValueError") ELSE Raised("ChannelError")
       /\ fan_mode = NoMode
       /\ settleLog = <<>>
       /\ bmc_mode_byte = bmc_mode_byte0
       /\ bmc_zone = [z \in {0, 1} |-> 50]

C20_Witness ==
    /\ fan_pc = "done"
    /\ fanLog = <<[netfn |-> 48, data |-> <<69, 0>>, ok |-> TRUE, rsp |-> <<0, 200>>]>>
    /\ fan_result = Raised("ValueError")
    /\ Len(fan_speeds) = 2
    /\ bmc_mode_byte = 200

====
